---- MODULE Spec2Model ----
(***************************************************************************)
(* Model of src/core/components/dht.js: the content-routing facade over    *)
(* the libp2p DHT engine (self.libp2p.dht) and the local block store       *)
(* (self.repo.blockstore).                                                 *)
(*                                                                         *)
(* Every facade operation is wrapped in promisify (promisify-es6) and the  *)
(* provide operation fans out with async/every and async/each (async 2.x). *)
(* A call is a record; the synchronous part of an operation is one action, *)
(* and every completion of an outstanding blockstore or engine request is  *)
(* one action that runs the whole callback chain hanging off that request. *)
(***************************************************************************)
EXTENDS Integers, Sequences, FiniteSets, TLC

\* ---------------------------------------------------------------- bounds
\* Longest identifier array handed to provide.
MaxKeys == 2
\* Longest array the free identifier `cids` may be bound to.
MaxCids == 2
\* Most addresses a peer record carries.
MaxAddrs == 2

CIDs == {"A", "B"}
Procs == {1, 2}
Peers == {"P"}
Addrs == {"a1", "a2"}
Keys == {"/foo/bar"}
Values == {"hello"}

\* ------------------------------------------------------ JavaScript values
Undefined == [type |-> "undefined"]
Bool(b) == [type |-> "boolean", b |-> b]
CidVal(c) == [type |-> "cid", cid |-> c]
ArrayVal(s) == [type |-> "array", items |-> s]
FnVal(n) == [type |-> "function", name |-> n]
EmptyObj == [type |-> "object"]
RecursiveObj(b) == [type |-> "object", recursive |-> Bool(b)]
BufferVal(b) == [type |-> "buffer", bytes |-> b]
\* A PeerId: query reads its id property, the raw bytes of the identifier.
PeerVal(n) == [type |-> "peer", id |-> BufferVal(n)]
\* peer-info's MultiaddrSet: an ordered list without duplicates.
MultiaddrSet(s) == [type |-> "MultiaddrSet", _multiaddrs |-> s]
PeerInfoVal(s) == [type |-> "PeerInfo", multiaddrs |-> MultiaddrSet(s)]

\* The continuation a caller passes, and the one promisify makes.
UserCb == FnVal("callback")
PromiseCb == FnVal("promise")

IsArray(v) == v.type = "array"
IsFunction(v) == v.type = "function"
\* Property read o.f: undefined when the object has no such property.
Get(o, f) == IF f \in DOMAIN o THEN o[f] ELSE Undefined
Truthy(v) == v.type = "boolean" /\ v.b

SeqsUpTo(S, n) == UNION {[1..k -> S] : k \in 0..n}

\* ------------------------------------------------------- errors, outcomes
NoErr == [kind |-> "null", about |-> "-"]
LocalErr == [kind |-> "Not all blocks exist locally, can not provide", about |-> "-"]
RefErr == [kind |-> "ReferenceError: cids is not defined", about |-> "-"]
TypeErr == [kind |-> "TypeError: callback is not a function", about |-> "-"]
HasErr(k) == [kind |-> "blockstore.has error", about |-> k]
ProvideErr(k) == [kind |-> "dht.provide error", about |-> k]
EngineErr(m) == [kind |-> "dht engine error", about |-> m]

Ok(v) == [ok |-> TRUE, err |-> NoErr, value |-> v]
Fail(e) == [ok |-> FALSE, err |-> e, value |-> Undefined]

\* ------------------------------------------------------------------ state
VARIABLES
    blockstore,  \* self.repo.blockstore: the identifiers whose block is present
    removed,     \* blocks another actor deleted from the blockstore since Init
    hasFail,     \* identifiers for which blockstore.has answers with an error
    provFail,    \* identifiers for which libp2p.dht.provide answers with an error
    cids,        \* what the free identifier `cids` of line 102 resolves to
    call         \* per caller: the facade call it has in flight

vars == <<blockstore, removed, hasFail, provFail, cids, call>>

\* `cids` is declared nowhere in the module: it resolves in the global scope.
Unbound == [type |-> "unbound"]

Idle == [op |-> "none", args |-> <<>>, form |-> "-", keys |-> <<>>,
         options |-> Undefined, callback |-> Undefined,
         hasSt |-> <<>>, everyDone |-> FALSE,
         coll |-> <<>>, provSt |-> <<>>, eachDone |-> FALSE,
         awaiting |-> FALSE, reply |-> Undefined,
         trace |-> <<>>, outcomes |-> <<>>, thrown |-> "none"]

\* ------------------------------------------------------------- promisify
\* promisify-es6: a trailing function is the callback; without one a promise
\* is returned and its settle function is pushed as the last argument.
LastIsFunction(args) == Len(args) > 0 /\ IsFunction(args[Len(args)])
PromisifyArgs(args) == IF LastIsFunction(args) THEN args ELSE Append(args, PromiseCb)
PromisifyForm(args) == IF LastIsFunction(args) THEN "callback" ELSE "promise"
\* Positional binding of a formal parameter.
Param(args, i) == IF i <= Len(args) THEN args[i] ELSE Undefined

\* An exception leaving the operation. Thrown while the operation is still on
\* the caller's stack it reaches the caller (callback form) or rejects the
\* promise (the executor of the promise form); thrown from a completion
\* callback it unwinds into the collaborator that called back.
Throw(c, e, sync) ==
    IF sync
    THEN IF c.form = "promise"
         THEN [c EXCEPT !.outcomes = Append(@, Fail(e))]
         ELSE [c EXCEPT !.thrown = "caller"]
    ELSE [c EXCEPT !.thrown = "uncaught"]

\* callback(err, value)
Deliver(c, o, sync) ==
    IF IsFunction(c.callback)
    THEN [c EXCEPT !.outcomes = Append(@, o)]
    ELSE Throw(c, TypeErr, sync)

\* ---------------------------------------------------------------- provide
\* Mutant: a bare identifier is iterated as it is, and yields no identifier.
NormKeysNoWrap(keys) == IF IsArray(keys) THEN keys.items ELSE <<>>

\* lines 80-82
NormKeys(keys) == IF IsArray(keys) THEN keys.items ELSE <<keys.cid>>

\* Mutant: a continuation in the options position is not moved.
ShiftOptionsNoShift(options, callback) == [options |-> options, callback |-> callback]

\* lines 83-86
ShiftOptions(options, callback) ==
    IF IsFunction(options)
    THEN [options |-> EmptyObj, callback |-> options]
    ELSE [options |-> options, callback |-> callback]

\* Mutant: the error of the presence check is not looked at.
GateNoErrCheck(err, has) == IF ~has THEN "absent" ELSE "proceed"

\* Mutant: the result of the presence check is not looked at.
GateNoAbsentCheck(err, has) == IF err # NoErr THEN "error" ELSE "proceed"

\* lines 92-97
Gate(err, has) ==
    IF err # NoErr THEN "error"
    ELSE IF ~has THEN "absent"
    ELSE "proceed"

\* line 99
Recursive(options) == Truthy(Get(options, "recursive"))

\* lines 102-104: each(cids, (cid, cb) => dht.provide(cid, cb), callback)
Announce(c, sync) ==
    IF cids = Unbound
    THEN Throw(c, RefErr, sync)
    ELSE LET coll == cids.items
             c1 == [c EXCEPT !.coll = coll,
                             !.provSt = [j \in 1..Len(coll) |-> "pending"],
                             !.trace = @ \o [j \in 1..Len(coll) |-> <<"provide", coll[j]>>]]
         IN  IF Len(coll) = 0
             THEN Deliver([c1 EXCEPT !.eachDone = TRUE], Ok(Undefined), sync)
             ELSE c1

\* lines 91-106: the final callback of every
EveryCallback(c, err, has, sync) ==
    LET g == Gate(err, has)
    IN  CASE g = "error" -> Deliver(c, Fail(err), sync)
          [] g = "absent" -> Deliver(c, Fail(LocalErr), sync)
          [] OTHER -> IF Recursive(c.options)
                      THEN c
                      ELSE Announce(c, sync)

\* lines 79-91: the synchronous part of provide(keys, options, callback)
Provide(args) ==
    LET pa == PromisifyArgs(args)
        keys == NormKeys(Param(pa, 1))
        sh == ShiftOptions(Param(pa, 2), Param(pa, 3))
        c == [Idle EXCEPT !.op = "provide", !.args = args,
                          !.form = PromisifyForm(args),
                          !.keys = keys,
                          !.options = sh.options,
                          !.callback = sh.callback,
                          !.hasSt = [i \in 1..Len(keys) |-> "pending"],
                          !.trace = [i \in 1..Len(keys) |-> <<"has", keys[i]>>]]
    IN  IF Len(keys) = 0
        THEN EveryCallback([c EXCEPT !.everyDone = TRUE], NoErr, TRUE, TRUE)
        ELSE c

\* What blockstore.has(key) answers now.
HasAnswer(k) ==
    IF k \in hasFail THEN "err"
    ELSE IF k \in blockstore THEN "true"
    ELSE "false"

Count(s, v) == Cardinality({i \in 1..Len(s) : s[i] = v})

\* Mutant: a check that failed with an error is issued again.
OnHasReplyRetry(c, i) ==
    IF HasAnswer(c.keys[i]) = "err" /\ ~c.everyDone
    THEN [c EXCEPT !.trace = Append(@, <<"has", c.keys[i]>>)]
    ELSE [c EXCEPT !.hasSt[i] = HasAnswer(c.keys[i])]

\* Mutant: any-of join, the first identifier found present ends the check.
OnHasReplyAnyOf(c, i) ==
    LET a == HasAnswer(c.keys[i])
        c1 == [c EXCEPT !.hasSt[i] = a]
    IN  IF c.everyDone THEN c1
        ELSE IF a = "err"
             THEN EveryCallback([c1 EXCEPT !.everyDone = TRUE], HasErr(c.keys[i]), FALSE, FALSE)
        ELSE IF a = "true"
             THEN EveryCallback([c1 EXCEPT !.everyDone = TRUE], NoErr, TRUE, FALSE)
        ELSE IF Count(c1.hasSt, "false") = Len(c1.hasSt)
             THEN EveryCallback([c1 EXCEPT !.everyDone = TRUE], NoErr, FALSE, FALSE)
        ELSE c1

\* lines 89-91: completion of the i-th blockstore.has of every
OnHasReply(c, i) ==
    LET a == HasAnswer(c.keys[i])
        c1 == [c EXCEPT !.hasSt[i] = a]
    IN  IF c.everyDone THEN c1
        ELSE IF a = "err"
             THEN EveryCallback([c1 EXCEPT !.everyDone = TRUE], HasErr(c.keys[i]), FALSE, FALSE)
        ELSE IF a = "false"
             THEN EveryCallback([c1 EXCEPT !.everyDone = TRUE], NoErr, FALSE, FALSE)
        ELSE IF Count(c1.hasSt, "true") = Len(c1.hasSt)
             THEN EveryCallback([c1 EXCEPT !.everyDone = TRUE], NoErr, TRUE, FALSE)
        ELSE c1

\* What libp2p.dht.provide(cid) answers.
ProvideAnswer(k) == IF k \in provFail THEN "err" ELSE "ok"

\* Mutant: the final callback of each is not guarded against a second call.
OnProvideReplyNoOnce(c, j) ==
    LET a == ProvideAnswer(c.coll[j])
        c1 == [c EXCEPT !.provSt[j] = a]
    IN  IF a = "err"
        THEN Deliver([c1 EXCEPT !.eachDone = TRUE], Fail(ProvideErr(c.coll[j])), FALSE)
        ELSE IF Count(c1.provSt, "ok") = Len(c1.provSt)
             THEN Deliver([c1 EXCEPT !.eachDone = TRUE], Ok(Undefined), FALSE)
        ELSE c1

\* lines 102-104: completion of the j-th dht.provide of each
OnProvideReply(c, j) ==
    LET a == ProvideAnswer(c.coll[j])
        c1 == [c EXCEPT !.provSt[j] = a]
    IN  IF c.eachDone THEN c1
        ELSE IF a = "err"
             THEN Deliver([c1 EXCEPT !.eachDone = TRUE], Fail(ProvideErr(c.coll[j])), FALSE)
        ELSE IF Count(c1.provSt, "ok") = Len(c1.provSt)
             THEN Deliver([c1 EXCEPT !.eachDone = TRUE], Ok(Undefined), FALSE)
        ELSE c1

\* ------------------------------------------------------ the delegations
\* Mutant: get announces its key instead of looking it up.
EngineMethodGetProvides(op) ==
    CASE op = "query" -> "getClosestPeers"
      [] op = "findprovs" -> "findProviders"
      [] op = "findpeer" -> "findPeer"
      [] op = "get" -> "provide"
      [] op = "put" -> "put"

\* The engine method each facade operation calls (lines 18, 28, 38, 53, 68).
EngineMethod(op) ==
    CASE op = "query" -> "getClosestPeers"
      [] op = "findprovs" -> "findProviders"
      [] op = "findpeer" -> "findPeer"
      [] op = "get" -> "get"
      [] op = "put" -> "put"

\* Mutant: put writes the key where the value belongs.
EngineArgsPutKeyTwice(op, pa) ==
    CASE op = "query" -> <<Param(pa, 1).id>>
      [] op = "put" -> <<Param(pa, 1), Param(pa, 1)>>
      [] OTHER -> <<Param(pa, 1)>>

\* The arguments handed to the engine method, the callback left out.
EngineArgs(op, pa) ==
    CASE op = "query" -> <<Param(pa, 1).id>>
      [] op = "put" -> <<Param(pa, 1), Param(pa, 2)>>
      [] OTHER -> <<Param(pa, 1)>>

\* lines 17-69: the synchronous part of query, findprovs, findpeer, get, put
Delegate(op, args) ==
    LET pa == PromisifyArgs(args)
    IN  [Idle EXCEPT !.op = op, !.args = args,
                     !.form = PromisifyForm(args),
                     !.callback = pa[Len(pa)],
                     !.awaiting = TRUE,
                     !.trace = <<<<EngineMethod(op)>> \o EngineArgs(op, pa)>>]

\* MultiaddrSet.toArray(): a copy of the list, in order.
ToArray(m) == ArrayVal([i \in 1..Len(m._multiaddrs) |-> m._multiaddrs[i]])

\* Mutant: a record without addresses is reported as a failure.
FindPeerCallbackRejectsEmpty(c, err, info) ==
    IF err # NoErr
    THEN Deliver(c, Fail(err), FALSE)
    ELSE IF Len(info.multiaddrs._multiaddrs) = 0
         THEN Deliver(c, Fail(EngineErr("findPeer")), FALSE)
         ELSE Deliver(c, Ok(ToArray(info.multiaddrs)), FALSE)

\* Mutant: the addresses are read before err is looked at.
FindPeerCallbackReadsFirst(c, err, info) ==
    IF "multiaddrs" \notin DOMAIN info
    THEN Throw(c, TypeErr, FALSE)
    ELSE IF err # NoErr
         THEN Deliver(c, Fail(err), FALSE)
         ELSE Deliver(c, Ok(ToArray(info.multiaddrs)), FALSE)

\* lines 38-43: the callback findpeer hands to dht.findPeer
FindPeerCallback(c, err, info) ==
    IF err # NoErr
    THEN Deliver(c, Fail(err), FALSE)
    ELSE Deliver(c, Ok(ToArray(info.multiaddrs)), FALSE)

\* The engine calls back with (err, value).
OnEngineReply(c, r) ==
    LET c1 == [c EXCEPT !.awaiting = FALSE, !.reply = r]
    IN  IF c.op = "findpeer"
        THEN FindPeerCallback(c1, r.err, r.value)
        ELSE Deliver(c1, [ok |-> r.err = NoErr, err |-> r.err, value |-> r.value], FALSE)

\* ------------------------------------------------------------ the inputs
KeyVals == {CidVal(k) : k \in CIDs} \cup {ArrayVal(s) : s \in SeqsUpTo(CIDs, MaxKeys)}
OptionArgs == {<<>>, <<RecursiveObj(FALSE)>>, <<RecursiveObj(TRUE)>>}
CallbackArgs == {<<>>, <<UserCb>>}
ProvideArgs == {<<k>> \o o \o cb : k \in KeyVals, o \in OptionArgs, cb \in CallbackArgs}


DelegateOps == {"query", "findprovs", "findpeer", "get", "put"}
DelegateArgs(op) ==
    CASE op \in {"query", "findpeer"} ->
            {<<PeerVal(n)>> \o cb : n \in Peers, cb \in CallbackArgs}
      [] op = "findprovs" ->
            {<<CidVal(k)>> \o cb : k \in CIDs, cb \in CallbackArgs}
      [] op = "get" ->
            {<<BufferVal(k)>> \o cb : k \in Keys, cb \in CallbackArgs}
      [] op = "put" ->
            {<<BufferVal(k), BufferVal(v)>> \o cb : k \in Keys, v \in Values, cb \in CallbackArgs}

\* Sequences without repetition.
Distinct(s) == \A i, j \in 1..Len(s) : s[i] = s[j] => i = j
AddrLists == {s \in SeqsUpTo(Addrs, MaxAddrs) : Distinct(s)}

\* What the engine may answer to each method.
EngineValues(op) ==
    CASE op = "query" -> {ArrayVal(s) : s \in SeqsUpTo(Peers, 1)}
      [] op = "findprovs" -> {ArrayVal(s) : s \in SeqsUpTo(Peers, 1)}
      [] op = "findpeer" -> {PeerInfoVal(s) : s \in AddrLists}
      [] op = "get" -> {BufferVal(v) : v \in Values}
      [] op = "put" -> {Undefined}
EngineReplies(op) ==
    {[err |-> EngineErr(EngineMethod(op)), value |-> Undefined]}
        \cup {[err |-> NoErr, value |-> v] : v \in EngineValues(op)}

\* ---------------------------------------------------------------- actions
Init ==
    /\ blockstore \in SUBSET CIDs
    /\ removed = {}
    /\ hasFail \in SUBSET CIDs
    /\ provFail \in SUBSET CIDs
    /\ cids \in {Unbound} \cup {ArrayVal(s) : s \in SeqsUpTo(CIDs, MaxCids)}
    /\ call = [p \in Procs |-> Idle]

env == <<blockstore, removed, hasFail, provFail, cids>>

CallProvide(p) ==
    /\ call[p].op = "none"
    /\ \E args \in ProvideArgs : call' = [call EXCEPT ![p] = Provide(args)]
    /\ UNCHANGED env

CallDelegate(p) ==
    /\ call[p].op = "none"
    /\ \E op \in DelegateOps : \E args \in DelegateArgs(op) :
          call' = [call EXCEPT ![p] = Delegate(op, args)]
    /\ UNCHANGED env

EngineReply(p) ==
    /\ call[p].awaiting
    /\ \E r \in EngineReplies(call[p].op) :
          call' = [call EXCEPT ![p] = OnEngineReply(call[p], r)]
    /\ UNCHANGED env

HasReply(p) ==
    /\ call[p].op = "provide"
    /\ \E i \in 1..Len(call[p].hasSt) :
          /\ call[p].hasSt[i] = "pending"
          /\ call' = [call EXCEPT ![p] = OnHasReply(call[p], i)]
    /\ UNCHANGED env

ProvideReply(p) ==
    /\ call[p].op = "provide"
    /\ \E j \in 1..Len(call[p].provSt) :
          /\ call[p].provSt[j] = "pending"
          /\ call' = [call EXCEPT ![p] = OnProvideReply(call[p], j)]
    /\ UNCHANGED env

\* Another actor of the node deletes a block.
RemoveBlock ==
    /\ \E k \in blockstore :
          /\ blockstore' = blockstore \ {k}
          /\ removed' = removed \cup {k}
    /\ UNCHANGED <<hasFail, provFail, cids, call>>

Next ==
    \/ CallProvide(1)
    \/ HasReply(1)
    \/ ProvideReply(1)
    \/ CallDelegate(1)
    \/ EngineReply(1)
    \/ RemoveBlock

Spec == Init /\ [][Next]_vars

\* ------------------------------------------------- two calls side by side
\* Two callers issue provide calls that differ in the form of one argument
\* only; the blockstore is left alone and every answer reaches both calls in
\* the same order.
Both(a1, a2) == [p \in Procs |-> IF p = 1 THEN Provide(a1) ELSE Provide(a2)]

\* provide(c, ...) beside provide([c], ...)
CallBareAndArray ==
    /\ \A p \in Procs : call[p].op = "none"
    /\ \E k \in CIDs, o \in OptionArgs, cb \in CallbackArgs :
          call' = Both(<<CidVal(k)>> \o o \o cb, <<ArrayVal(<<k>>)>> \o o \o cb)
    /\ UNCHANGED env

\* provide(keys) beside provide(keys, {recursive: false})
CallOmittedAndExplicit ==
    /\ \A p \in Procs : call[p].op = "none"
    /\ \E k \in KeyVals, cb \in CallbackArgs :
          call' = Both(<<k>> \o cb, <<k, RecursiveObj(FALSE)>> \o cb)
    /\ UNCHANGED env

HasPending(c, i) == i <= Len(c.hasSt) /\ c.hasSt[i] = "pending"
ProvidePending(c, j) == j <= Len(c.provSt) /\ c.provSt[j] = "pending"

HasReplyBoth ==
    /\ \E i \in 1..MaxKeys :
          /\ \E p \in Procs : HasPending(call[p], i)
          /\ call' = [p \in Procs |-> IF HasPending(call[p], i)
                                      THEN OnHasReply(call[p], i)
                                      ELSE call[p]]
    /\ UNCHANGED env

ProvideReplyBoth ==
    /\ \E j \in 1..MaxCids :
          /\ \E p \in Procs : ProvidePending(call[p], j)
          /\ call' = [p \in Procs |-> IF ProvidePending(call[p], j)
                                      THEN OnProvideReply(call[p], j)
                                      ELSE call[p]]
    /\ UNCHANGED env

NextTwin ==
    \/ CallBareAndArray
    \/ CallOmittedAndExplicit
    \/ HasReplyBoth
    \/ ProvideReplyBoth

SpecTwin == Init /\ [][NextTwin]_vars

\* ------------------------------------------------- observations on a call
IsProvide(c) == c.op = "provide"
\* Every request the call issued has been answered.
Quiescent(c) ==
    /\ \A i \in 1..Len(c.hasSt) : c.hasSt[i] # "pending"
    /\ \A j \in 1..Len(c.provSt) : c.provSt[j] # "pending"
Reported(c, v) == \E i \in 1..Len(c.hasSt) : c.hasSt[i] = v
AllPresent(c) == \A i \in 1..Len(c.hasSt) : c.hasSt[i] = "true"
\* The identifiers libp2p.dht.provide was invoked for, in order.
IsProvideCall(t) == t[1] = "provide"
ProvideCalls(c) == SelectSeq(c.trace, IsProvideCall)
Times(s, x) == Cardinality({i \in 1..Len(s) : s[i] = x})
\* The caller passed {recursive: true}.
AskedRecursive(c) == \E i \in 1..Len(c.args) : c.args[i] = RecursiveObj(TRUE)
KeySet(c) == {c.keys[i] : i \in 1..Len(c.keys)}

\* ------------------------------------------------------------------ C1
\* C1 (as stated): a provide call for which the blockstore reports some
\* identifier absent fails with the local-availability error and invokes
\* libp2p.dht.provide for no identifier.
C1_AbsentFailsLocal ==
    \A p \in Procs :
        (IsProvide(call[p]) /\ Reported(call[p], "false"))
            => /\ call[p].outcomes = <<Fail(LocalErr)>>
               /\ ProvideCalls(call[p]) = <<>>

\* C1 (amended): a provide call for which the blockstore reports some
\* identifier absent invokes libp2p.dht.provide for no identifier and fails
\* exactly once, with the local-availability error or with the error of a
\* blockstore.has check of the same call that failed; without a failed check
\* it is the local-availability error.
C1_AbsentFailsNoAnnounce ==
    \A p \in Procs :
        (IsProvide(call[p]) /\ Reported(call[p], "false"))
            => /\ ProvideCalls(call[p]) = <<>>
               /\ call[p].thrown = "none"
               /\ Len(call[p].outcomes) = 1
               /\ \/ call[p].outcomes[1] = Fail(LocalErr)
                  \/ \E i \in 1..Len(call[p].keys) :
                        /\ call[p].hasSt[i] = "err"
                        /\ call[p].outcomes[1] = Fail(HasErr(call[p].keys[i]))

\* A two-identifier call, one present and one absent, failed locally.
C1_Witness ==
    \E p \in Procs :
        /\ IsProvide(call[p])
        /\ Reported(call[p], "false") /\ Reported(call[p], "true")
        /\ Quiescent(call[p])
        /\ call[p].outcomes = <<Fail(LocalErr)>>

\* ------------------------------------------------------------------ C2
\* C2: a non-recursive provide over a non-empty sequence of identifiers that
\* are all present invokes libp2p.dht.provide exactly once per given
\* identifier and for no other, and succeeds iff all those calls succeed.
C2_AnnouncesEachOnce ==
    \A p \in Procs :
        (/\ IsProvide(call[p])
         /\ ~AskedRecursive(call[p])
         /\ Len(call[p].keys) > 0
         /\ AllPresent(call[p])
         /\ Quiescent(call[p]))
            => /\ \A k \in CIDs :
                    Times(ProvideCalls(call[p]), <<"provide", k>>) = Times(call[p].keys, k)
               /\ Len(call[p].outcomes) = 1
               /\ call[p].outcomes[1].ok <=> (KeySet(call[p]) \cap provFail = {})

\* ------------------------------------------------------------------ C3
\* C3: once the blockstore and the engine have answered every request of a
\* provide call, the caller's continuation has been invoked.
C3_Resolves ==
    \A p \in Procs :
        (IsProvide(call[p]) /\ Quiescent(call[p]))
            => Len(call[p].outcomes) >= 1

\* ------------------------------------------------------------------ C4
\* C4: a recursive provide whose identifiers are all present invokes
\* libp2p.dht.provide for every given identifier (and for every linked one).
C4_RecursiveAnnounces ==
    \A p \in Procs :
        (/\ IsProvide(call[p])
         /\ AskedRecursive(call[p])
         /\ AllPresent(call[p])
         /\ Quiescent(call[p]))
            => \A k \in KeySet(call[p]) :
                  Times(ProvideCalls(call[p]), <<"provide", k>>) >= 1

\* ------------------------------------------------------------------ C5
\* C5: a non-recursive provide over several present identifiers, for one of
\* which libp2p.dht.provide fails, fails with that engine error.
C5_AnnounceFailureFails ==
    \A p \in Procs :
        (/\ IsProvide(call[p])
         /\ ~AskedRecursive(call[p])
         /\ Len(call[p].keys) >= 2
         /\ AllPresent(call[p])
         /\ Quiescent(call[p])
         /\ KeySet(call[p]) \cap provFail # {})
            => \E k \in KeySet(call[p]) \cap provFail :
                  call[p].outcomes = <<Fail(ProvideErr(k))>>

\* ------------------------------------------------------------------ C6
\* C6: libp2p.dht.provide is invoked on behalf of a provide call only after
\* blockstore.has has completed for every identifier of the call and
\* reported presence for each.
C6_AnnounceAfterAllPresent ==
    \A p \in Procs :
        (IsProvide(call[p]) /\ ProvideCalls(call[p]) # <<>>)
            => AllPresent(call[p])

\* A call over two identifiers reached the announce step.
C6_Witness ==
    \E p \in Procs :
        /\ IsProvide(call[p])
        /\ Len(call[p].keys) >= 2
        /\ ProvideCalls(call[p]) # <<>>

\* ------------------------------------------------------------------ C7
\* C7: provide over an empty collection succeeds and invokes
\* libp2p.dht.provide for nothing.
C7_EmptyIsNoOp ==
    \A p \in Procs :
        (IsProvide(call[p]) /\ call[p].args[1] = ArrayVal(<<>>))
            => /\ call[p].outcomes = <<Ok(Undefined)>>
               /\ ProvideCalls(call[p]) = <<>>

\* ------------------------------------------------------------------ C8
\* What a caller and the collaborators see of a call: the blockstore and
\* engine calls in order, the results delivered, an exception thrown.
Observed(c) == <<c.trace, c.outcomes, c.thrown>>

BareAndArray ==
    /\ IsProvide(call[1]) /\ IsProvide(call[2])
    /\ call[1].args[1].type = "cid"
    /\ call[2].args = <<ArrayVal(<<call[1].args[1].cid>>)>> \o Tail(call[1].args)

\* C8: provide(c) and provide([c]), given the same answers, make the same
\* blockstore and engine calls and have the same outcome.
C8_BareEqualsSingleton == BareAndArray => Observed(call[1]) = Observed(call[2])

\* Both calls of such a pair have run to a delivered result.
C8_Witness ==
    /\ BareAndArray
    /\ Quiescent(call[1]) /\ Quiescent(call[2])
    /\ call[1].outcomes # <<>>

\* ------------------------------------------------------------------ C9
OmittedAndExplicit ==
    /\ IsProvide(call[1]) /\ IsProvide(call[2])
    /\ \A i \in 1..Len(call[1].args) : call[1].args[i].type # "object"
    /\ call[2].args = <<call[1].args[1], RecursiveObj(FALSE)>> \o Tail(call[1].args)

\* C9: provide with the options omitted and provide with {recursive: false},
\* given the same answers, make the same blockstore and engine calls and have
\* the same outcome.
C9_OmittedEqualsNonRecursive == OmittedAndExplicit => Observed(call[1]) = Observed(call[2])

\* Such a pair in callback form, run to a delivered result.
C9_Witness ==
    /\ OmittedAndExplicit
    /\ call[1].args[Len(call[1].args)] = UserCb
    /\ Len(call[1].keys) >= 2
    /\ Quiescent(call[1]) /\ Quiescent(call[2])
    /\ call[1].outcomes # <<>>

\* And one in promise form, no continuation passed at all.
C9_WitnessPromise ==
    /\ OmittedAndExplicit
    /\ Len(call[1].args) = 1
    /\ Quiescent(call[1]) /\ Quiescent(call[2])
    /\ call[1].outcomes # <<>>

\* ----------------------------------------------------------------- C10
\* C10: findpeer whose engine lookup succeeded delivers exactly the
\* addresses of the returned record, in order, as a success; a record
\* without addresses gives a successful empty sequence.
C10_FindPeerAddresses ==
    \A p \in Procs :
        (call[p].op = "findpeer" /\ ~call[p].awaiting /\ call[p].reply.err = NoErr)
            => call[p].outcomes = <<Ok(ArrayVal(call[p].reply.value.multiaddrs._multiaddrs))>>

\* A lookup answered with a record that carries no address.
C10_WitnessEmpty ==
    \E p \in Procs :
        /\ call[p].op = "findpeer" /\ ~call[p].awaiting
        /\ call[p].reply = [err |-> NoErr, value |-> PeerInfoVal(<<>>)]
        /\ call[p].outcomes = <<Ok(ArrayVal(<<>>))>>

\* ----------------------------------------------------------------- C11
IsDelegation(c) == c.op \in DelegateOps
Answered(c) == IsDelegation(c) /\ ~c.awaiting
\* The arguments the caller passed, the continuation left out.
CallerArgs(c) ==
    IF LastIsFunction(c.args) THEN SubSeq(c.args, 1, Len(c.args) - 1) ELSE c.args

\* C11: when the engine call of query, findprovs, findpeer, get or put fails
\* with error e, the operation fails with exactly e, delivers no success
\* value and throws nothing (findpeer does not read the record).
C11_EngineErrorVerbatim ==
    \A p \in Procs :
        (Answered(call[p]) /\ call[p].reply.err # NoErr)
            => /\ call[p].outcomes = <<Fail(call[p].reply.err)>>
               /\ call[p].thrown = "none"

\* A findpeer whose lookup failed.
C11_Witness ==
    \E p \in Procs :
        /\ call[p].op = "findpeer" /\ Answered(call[p])
        /\ call[p].reply.err = EngineErr("findPeer")
        /\ call[p].outcomes = <<Fail(EngineErr("findPeer"))>>

\* A put whose write failed.
C11_WitnessPut ==
    \E p \in Procs :
        /\ call[p].op = "put" /\ Answered(call[p])
        /\ call[p].outcomes = <<Fail(EngineErr("put"))>>

\* ----------------------------------------------------------------- C12
PureDelegations == {"query", "findprovs", "get", "put"}

\* C12 (as stated): query, findprovs, get and put invoke their engine method
\* exactly once with the caller's arguments and, on engine success, deliver
\* the engine's result unchanged.
C12_PureDelegation ==
    \A p \in Procs :
        call[p].op \in PureDelegations
            => /\ call[p].trace = <<<<EngineMethod(call[p].op)>> \o CallerArgs(call[p])>>
               /\ (Answered(call[p]) /\ call[p].reply.err = NoErr)
                     => call[p].outcomes = <<Ok(call[p].reply.value)>>

\* What the engine is expected to receive: the id of query's peer, and the
\* caller's arguments of the other three.
ExpectedEngineArgs(c) ==
    IF c.op = "query" THEN <<c.args[1].id>> ELSE CallerArgs(c)

\* C12 (amended): findprovs, get and put invoke their engine method exactly
\* once with the caller's arguments, query invokes getClosestPeers exactly
\* once with the id property of the caller's peer, and on engine success each
\* of the four delivers the engine's result unchanged.
C12_DelegationPassesIdOrArgs ==
    \A p \in Procs :
        call[p].op \in PureDelegations
            => /\ call[p].trace = <<<<EngineMethod(call[p].op)>> \o ExpectedEngineArgs(call[p])>>
               /\ (Answered(call[p]) /\ call[p].reply.err = NoErr)
                     => call[p].outcomes = <<Ok(call[p].reply.value)>>

\* get("/foo/bar") answered with the bytes "hello" delivered "hello".
C12_Witness ==
    \E p \in Procs :
        /\ call[p].op = "get" /\ Answered(call[p])
        /\ call[p].trace = <<<<"get", BufferVal("/foo/bar")>>>>
        /\ call[p].outcomes = <<Ok(BufferVal("hello"))>>

\* A put that was written.
C12_WitnessPut ==
    \E p \in Procs :
        /\ call[p].op = "put" /\ Answered(call[p])
        /\ call[p].trace = <<<<"put", BufferVal("/foo/bar"), BufferVal("hello")>>>>
        /\ call[p].outcomes = <<Ok(Undefined)>>

\* ----------------------------------------------------------------- C13
\* C13: within one provide call blockstore.has is invoked at most once per
\* element of the identifier sequence and libp2p.dht.provide at most once per
\* element of the collection each iterates; nothing is issued again, whatever
\* the answers.
C13_NoRetry ==
    \A p \in Procs :
        IsProvide(call[p])
            => \A k \in CIDs :
                  /\ Times(call[p].trace, <<"has", k>>) <= Times(call[p].keys, k)
                  /\ Times(call[p].trace, <<"provide", k>>) <= Times(call[p].coll, k)

\* A call over two identifiers, one of whose checks failed, all answered.
C13_Witness ==
    \E p \in Procs :
        /\ IsProvide(call[p]) /\ Len(call[p].keys) >= 2
        /\ Reported(call[p], "err")
        /\ Quiescent(call[p])

\* A call one of whose announces failed, all answered.
C13_WitnessAnnounce ==
    \E p \in Procs :
        /\ IsProvide(call[p]) /\ Len(call[p].provSt) >= 2
        /\ \E j \in 1..Len(call[p].provSt) : call[p].provSt[j] = "err"
        /\ Quiescent(call[p])

\* ----------------------------------------------------------------- C14
\* The identifiers libp2p.dht.provide is invoked for in this step.
NewlyAnnounced(p) ==
    {ProvideCalls(call'[p])[j][2] :
        j \in (Len(ProvideCalls(call[p])) + 1)..Len(ProvideCalls(call'[p]))}

C14_CheckedIsStillPresent ==
    [][\A p \in Procs :
          (cids # Unbound /\ call'[p].coll = call'[p].keys)
              => NewlyAnnounced(p) \subseteq blockstore]_vars

\* ----------------------------------------------------------------- C15
\* C15 (as stated): if blockstore.has fails with error e for an identifier of
\* a provide call, the call fails with e itself and libp2p.dht.provide is
\* invoked for no identifier.
C15_HasErrorVerbatim ==
    \A p \in Procs :
        IsProvide(call[p])
            => \A i \in 1..Len(call[p].keys) :
                  call[p].hasSt[i] = "err"
                      => /\ call[p].outcomes = <<Fail(HasErr(call[p].keys[i]))>>
                         /\ ProvideCalls(call[p]) = <<>>

\* C15 (amended): if blockstore.has fails with an error for an identifier of
\* a provide call, libp2p.dht.provide is invoked for no identifier and the
\* call fails exactly once, with the first failure the checks reported: the
\* error of one of the failed checks, or the local-availability error when
\* an absence had been reported.
C15_HasErrorFailsNoAnnounce ==
    \A p \in Procs :
        (IsProvide(call[p]) /\ Reported(call[p], "err"))
            => /\ ProvideCalls(call[p]) = <<>>
               /\ call[p].thrown = "none"
               /\ Len(call[p].outcomes) = 1
               /\ \/ \E i \in 1..Len(call[p].keys) :
                        /\ call[p].hasSt[i] = "err"
                        /\ call[p].outcomes[1] = Fail(HasErr(call[p].keys[i]))
                  \/ /\ Reported(call[p], "false")
                     /\ call[p].outcomes[1] = Fail(LocalErr)

\* A check failed while the other identifier was present: the call failed
\* with the check's error.
C15_Witness ==
    \E p \in Procs :
        /\ IsProvide(call[p])
        /\ Reported(call[p], "err") /\ Reported(call[p], "true")
        /\ Quiescent(call[p])
        /\ \E i \in 1..Len(call[p].keys) :
              call[p].outcomes = <<Fail(HasErr(call[p].keys[i]))>>

\* ----------------------------------------------------------------- C16
\* C16: the continuation of a call is invoked at most once: once a result has
\* been delivered, no later completion delivers another or changes it.
C16_ContinuationOnce ==
    [][\A p \in Procs :
          /\ Len(call'[p].outcomes) <= 1
          /\ call[p].outcomes # <<>> => call'[p].outcomes = call[p].outcomes]_vars

Failures(st) == Cardinality({i \in 1..Len(st) : st[i] \in {"err", "false"}})

\* Two checks of a call failed or reported absence, so one of them completed
\* after the failure had been delivered; one result stands.
C16_Witness ==
    \E p \in Procs :
        /\ IsProvide(call[p])
        /\ Failures(call[p].hasSt) >= 2
        /\ Len(call[p].outcomes) = 1 /\ ~call[p].outcomes[1].ok

\* Two announces of a call failed; one result stands.
C16_WitnessAnnounce ==
    \E p \in Procs :
        /\ IsProvide(call[p])
        /\ Failures(call[p].provSt) >= 2
        /\ Len(call[p].outcomes) = 1 /\ ~call[p].outcomes[1].ok

\* ----------------------------------------------------------------- C17
Called(c) == {c.trace[i][1] : i \in 1..Len(c.trace)}
\* The call failed at the gate or before it.
FailedBeforeAnnounce(c) ==
    /\ Len(c.outcomes) >= 1
    /\ \/ c.outcomes[1].err = LocalErr
       \/ \E k \in CIDs : c.outcomes[1].err = HasErr(k)

\* What a call may touch.
FrameOf(c) ==
    /\ IsProvide(c) => Called(c) \subseteq {"has", "provide"}
    /\ (IsProvide(c) /\ FailedBeforeAnnounce(c)) => Called(c) \subseteq {"has"}
    /\ (IsProvide(c) /\ ~c.everyDone) => Called(c) \subseteq {"has"}
    /\ IsDelegation(c) => /\ Called(c) = {EngineMethod(c.op)}
                          /\ Called(c) \cap {"has", "provide"} = {}
                          /\ Len(c.trace) = 1

\* C17: no step of a facade operation changes the blockstore; provide calls
\* only blockstore.has and libp2p.dht.provide; query, findprovs, findpeer,
\* get and put call only their own engine method, never the blockstore and
\* never libp2p.dht.provide; a provide that fails before the announce step
\* has not contacted the engine.
C17_Frame ==
    /\ [](\A p \in Procs : FrameOf(call[p]))
    /\ [][call' # call => blockstore' = blockstore]_vars

\* A provide over two identifiers that failed at the gate with blocks in the
\* store.
C17_Witness ==
    \E p \in Procs :
        /\ IsProvide(call[p]) /\ Len(call[p].keys) >= 2
        /\ call[p].outcomes = <<Fail(LocalErr)>>
        /\ Quiescent(call[p])
        /\ blockstore # {}

\* A get answered by the engine.
C17_WitnessDelegation ==
    \E p \in Procs :
        /\ call[p].op = "get" /\ Answered(call[p])
        /\ blockstore # {}

====
